---- MODULE Spec2Model ----
(***************************************************************************)
(* Model of thotp::custom (src/src/custom.rs): otp_custom,                 *)
(* verify_totp_custom and verify_hotp_custom.                              *)
(*                                                                         *)
(* A u64 is kept at its full width as four 16-bit limbs, most significant  *)
(* first, so that saturating and wrapping arithmetic at 0 and at 2^64-1    *)
(* is the arithmetic of the code.  A u32 is kept as two 16-bit limbs.      *)
(* A String of decimal characters is a sequence over 0..9.                 *)
(***************************************************************************)
EXTENDS Integers, Sequences, FiniteSets, TLC

\* Half-width of the set of moving factors around 0 and around 2^64-1 for
\* which the keyed hash is tabulated.
Near == 1

\* Largest ordinary lookahead / allowed drift offered to the verifiers
\* (255, the u8 maximum, is always offered as well).
MaxWindow == 2

Base == 2 ^ 16

U8Max == 2 ^ 8 - 1

----------------------------------------------------------------------------
\* u64 arithmetic on limbs

U64Zero == <<0, 0, 0, 0>>

U64Max == <<Base - 1, Base - 1, Base - 1, Base - 1>>

\* n as u64, for 0 <= n < 2^31
FromNat(n) == <<0, 0, n \div Base, n % Base>>

\* x + k for 0 <= k < Base: the 64-bit sum and the carry out of bit 63
AddCarry(x, k) ==
    LET s4 == x[4] + k
        s3 == x[3] + (s4 \div Base)
        s2 == x[2] + (s3 \div Base)
        s1 == x[1] + (s2 \div Base)
    IN  [val   |-> <<s1 % Base, s2 % Base, s3 % Base, s4 % Base>>,
         carry |-> s1 \div Base = 1]

\* x - k for 0 <= k < Base: the 64-bit difference and the borrow
SubBorrow(x, k) ==
    LET d4 == x[4] - k
        b4 == IF d4 < 0 THEN 1 ELSE 0
        d3 == x[3] - b4
        b3 == IF d3 < 0 THEN 1 ELSE 0
        d2 == x[2] - b3
        b2 == IF d2 < 0 THEN 1 ELSE 0
        d1 == x[1] - b2
        b1 == IF d1 < 0 THEN 1 ELSE 0
    IN  [val    |-> <<d1 + b1 * Base, d2 + b2 * Base, d3 + b3 * Base, d4 + b4 * Base>>,
         borrow |-> b1 = 1]

\* (x as u128 + k as u128) as u64
wrapping_add(x, k) == AddCarry(x, k).val

saturating_add(x, k) == IF AddCarry(x, k).carry THEN U64Max ELSE AddCarry(x, k).val

saturating_sub(x, k) == IF SubBorrow(x, k).borrow THEN U64Zero ELSE SubBorrow(x, k).val

U64Less(x, y) ==
    \E i \in 1..4 : x[i] < y[i] /\ \A j \in 1..(i - 1) : x[j] = y[j]

U64Leq(x, y) == x = y \/ U64Less(x, y)

\* x / s for 1 <= s <= 255 (long division, limb by limb)
U64Div(x, s) ==
    LET c1 == x[1]
        c2 == (c1 % s) * Base + x[2]
        c3 == (c2 % s) * Base + x[3]
        c4 == (c3 % s) * Base + x[4]
    IN  <<c1 \div s, c2 \div s, c3 \div s, c4 \div s>>

\* The moving factors whose keyed hash is tabulated: the last Near values
\* below 2^64 and the first Near + 1 values from 0.
NonceDom ==
    {SubBorrow(U64Max, j).val : j \in 0..(Near - 1)} \cup {FromNat(j) : j \in 0..Near}

\* The time slices whose keyed hash is tabulated for verify_totp_custom: the
\* windows of every allowed drift up to MaxWindow around the slices
\* 0..MaxWindow, and the window that ends at 2^64 - 1.
TotpDom ==
    {FromNat(j) : j \in 0..(2 * MaxWindow)} \cup {SubBorrow(U64Max, j).val : j \in 0..MaxWindow}

----------------------------------------------------------------------------
\* u32 arithmetic: 10_u32.pow(digits)

U32One == <<0, 1>>

\* x * 10 in u32: the wrapped product and whether it overflowed
U32Mul10(x) ==
    LET lo == x[2] * 10
        hi == x[1] * 10 + (lo \div Base)
    IN  [val |-> <<hi % Base, lo % Base>>, overflow |-> hi >= Base]

RECURSIVE U32Pow10(_)
\* 10_u32.pow(e): the wrapped power and whether any product overflowed
U32Pow10(e) ==
    IF e = 0 THEN [val |-> U32One, overflow |-> FALSE]
    ELSE LET p == U32Pow10(e - 1)
             m == U32Mul10(p.val)
         IN  [val |-> m.val, overflow |-> p.overflow \/ m.overflow]

\* trunc % m for a 31-bit trunc and a non-zero u32 m
U32Rem(trunc, m) ==
    IF m[1] >= Base \div 2 THEN trunc ELSE trunc % (m[1] * Base + m[2])

----------------------------------------------------------------------------
\* Strings of decimal characters

RECURSIVE to_string(_)
\* u32::to_string: no leading zeros, "0" for 0
to_string(n) ==
    IF n < 10 THEN <<n>> ELSE Append(to_string(n \div 10), n % 10)

\* String::insert(i, c)
insert(s, i, c) == SubSeq(s, 1, i) \o <<c>> \o SubSeq(s, i + 1, Len(s))

RECURSIVE PadLoop(_, _, _)
\* for i in i..k { result.insert(i, '0') }
PadLoop(result, i, k) ==
    IF i >= k THEN result ELSE PadLoop(insert(result, i, 0), i + 1, k)

RECURSIVE Decimal(_)
\* The number a string of decimal characters denotes
Decimal(s) ==
    IF Len(s) = 0 THEN 0 ELSE Decimal(SubSeq(s, 1, Len(s) - 1)) * 10 + s[Len(s)]

----------------------------------------------------------------------------
\* State

VARIABLES
    overflow_checks,  \* the build profile: TRUE panics on integer overflow, FALSE wraps
    hmac,             \* nonce |-> dynamic_trunc(hmac_digest(secret, nonce)) for the caller's secret
    counter,          \* the HOTP counter the caller persists between calls
    used,             \* the counters at which verify_hotp_custom has matched so far
    wrapped,          \* whether some verify_hotp_custom window reached past 2^64 - 2
    call              \* the last call: its arguments and what it returned

vars == <<overflow_checks, hmac, counter, used, wrapped, call>>

\* Values of the 31-bit truncation used to tabulate the keyed hash: one that
\* needs padding and the largest one.
TruncVals == {42, 2147483647}

\* Values of the truncation offered to a single otp_custom call: the ends of
\* the 31-bit range, values around powers of ten and around 10^10 mod 2^32.
TruncValsWide ==
    {0, 9, 10, 42, 999999, 1000000, 999999999, 1000000000,
     1410065407, 1410065408, 2147483647}

\* The digits settings offered to the verifiers: the default, and the largest
\* the 31-bit truncation fills
DigitsSet == {6, 10}

DigitsAll == 1..10

Steps == {0, 1, 30}

Windows == 0..MaxWindow \cup {U8Max}

Timestamps == {FromNat(t) : t \in {0, 1, 2, 30, 59, 60}} \cup {U64Max}

\* What the system clock can answer: a time, or a time before the epoch
Clocks ==
    {[kind |-> "Ok", secs |-> t] : t \in Timestamps} \cup {[kind |-> "Err", secs |-> U64Zero]}

ALLOWED_DRIFT == 1

Panic == [kind |-> "Panic", ok |-> FALSE, val |-> <<>>, scanned |-> <<>>]

ClockError == [kind |-> "Err", ok |-> FALSE, val |-> <<>>, scanned |-> <<>>]

Ok(ok, val, scanned) == [kind |-> "Ok", ok |-> ok, val |-> val, scanned |-> scanned]

----------------------------------------------------------------------------
\* The functions of custom.rs

\* hmac_digest followed by dynamic_trunc: a 31-bit value
dynamic_trunc(nonce) == hmac[nonce]

\* 10_u32.pow(e) for every exponent the model uses, computed once
Pow10Table == [e \in 0..12 |-> U32Pow10(e)]

\* 10_u32.pow(digits as u32)
Modulus(digits) == Pow10Table[digits]

\* The password for a truncated value: modulus, to_string and padding
Password(trunc, digits) ==
    LET m      == Modulus(digits)
        result == to_string(U32Rem(trunc, m.val))
    IN  IF m.overflow /\ overflow_checks THEN Panic
        ELSE IF digits < Len(result) THEN Panic
        ELSE Ok(TRUE, PadLoop(result, 0, digits - Len(result)), <<>>)

otp_custom(nonce, digits) == Password(dynamic_trunc(nonce), digits)

RECURSIVE TotpLoop(_, _, _, _, _, _)
\* for n in n..=end, with discrepancy i and the counters tried before n
TotpLoop(password, n, end, digits, i, scanned) ==
    LET pass == otp_custom(n, digits)
    IN  IF pass.kind # "Ok" THEN pass
        ELSE IF pass.val = password THEN Ok(TRUE, i, Append(scanned, n))
        ELSE IF n = end THEN Ok(FALSE, 0, Append(scanned, n))
        ELSE TotpLoop(password, wrapping_add(n, 1), end, digits, i + 1, Append(scanned, n))

\* The discrepancy the scan starts from
InitialDiscrepancy(allowed_drift) == -ALLOWED_DRIFT

verify_totp_custom(password, timestamp, digits, step, allowed_drift, clock) ==
    IF timestamp = U64Zero /\ clock.kind # "Ok" THEN ClockError
    ELSE IF step = 0 THEN Panic
    ELSE LET nonce == U64Div(IF timestamp = U64Zero THEN clock.secs ELSE timestamp, step)
             start == saturating_sub(nonce, allowed_drift)
             end   == saturating_add(nonce, allowed_drift)
         IN  TotpLoop(password, start, end, digits, InitialDiscrepancy(allowed_drift), <<>>)

\* A verifier that hands back the matched counter itself
NextCounterSame(current) == current

\* (current as u128 + 1) as u64
NextCounter(current) == wrapping_add(current, 1)

RECURSIVE HotpLoop(_, _, _, _, _, _)
\* for current in current..bound, with the counters tried before
HotpLoop(password, ctr, current, bound, digits, scanned) ==
    IF current >= bound THEN Ok(FALSE, ctr, scanned)
    ELSE LET cur  == wrapping_add(ctr, current)
             pass == otp_custom(cur, digits)
         IN  IF pass.kind # "Ok" THEN pass
             ELSE IF pass.val = password THEN Ok(TRUE, NextCounter(cur), Append(scanned, cur))
             ELSE HotpLoop(password, ctr, current + 1, bound, digits, Append(scanned, cur))

\* lookahead + 1 in u8
RangeEnd(lookahead) ==
    [val |-> (lookahead + 1) % (U8Max + 1), overflow |-> lookahead + 1 > U8Max]

verify_hotp_custom(password, ctr, lookahead, digits) ==
    LET bound == RangeEnd(lookahead)
    IN  IF bound.overflow /\ overflow_checks THEN Panic
        ELSE HotpLoop(password, ctr, 0, bound.val, digits, <<>>)

----------------------------------------------------------------------------
\* Calls

NoCall ==
    [op |-> "none", gen |-> U64Zero, digits |-> 0, password |-> <<>>,
     timestamp |-> U64Zero, now |-> U64Zero, step |-> 0, window |-> 0,
     counter |-> U64Zero, seen |-> {}, ret |-> Panic]

\* The counters x, x+1, ..., x+k (mod 2^64)
Span(x, k) == {wrapping_add(x, j) : j \in 0..k}

Init ==
    /\ overflow_checks \in BOOLEAN
    /\ hmac \in [NonceDom -> TruncVals]
    /\ counter \in NonceDom
    /\ used = {}
    /\ wrapped = FALSE
    /\ call = NoCall

\* One call of otp_custom: every digits in 1..10 and a wide choice of
\* truncated values
InitOtp ==
    /\ overflow_checks \in BOOLEAN
    /\ hmac \in {[n \in NonceDom |-> v] : v \in TruncValsWide}
    /\ counter = U64Zero
    /\ used = {}
    /\ wrapped = FALSE
    /\ call = NoCall

\* One call of verify_totp_custom
InitTotp ==
    /\ overflow_checks \in BOOLEAN
    /\ hmac \in [TotpDom -> TruncVals]
    /\ counter = U64Zero
    /\ used = {}
    /\ wrapped = FALSE
    /\ call = NoCall

\* otp_custom(secret, nonce, digits)
Generate ==
    /\ call.op = "none"
    /\ \E nonce \in DOMAIN hmac, digits \in DigitsAll :
        /\ call' = [NoCall EXCEPT !.op = "otp", !.gen = nonce, !.digits = digits,
                                  !.ret = otp_custom(nonce, digits)]
        /\ UNCHANGED <<overflow_checks, hmac, counter, used, wrapped>>

\* verify_totp_custom with the password generated for the moving factor gen
VerifyTotp ==
    /\ call.op = "none"
    /\ \E timestamp \in Timestamps, step \in Steps, allowed_drift \in Windows :
       \E clock \in IF timestamp = U64Zero THEN Clocks
                    ELSE {[kind |-> "Ok", secs |-> timestamp]} :
        /\ step # 0 =>
             /\ allowed_drift <= MaxWindow
             /\ \A j \in 0..allowed_drift :
                  /\ saturating_sub(U64Div(clock.secs, step), j) \in DOMAIN hmac
                  /\ saturating_add(U64Div(clock.secs, step), j) \in DOMAIN hmac
        /\ \E gen \in DOMAIN hmac, digits \in DigitsSet :
             LET pass == otp_custom(gen, digits)
             IN  /\ pass.kind = "Ok"
                 /\ call' = [NoCall EXCEPT
                               !.op = "totp", !.gen = gen, !.digits = digits,
                               !.password = pass.val, !.timestamp = timestamp,
                               !.now = clock.secs, !.step = step, !.window = allowed_drift,
                               !.ret = verify_totp_custom(pass.val, timestamp, digits, step,
                                                          allowed_drift, clock)]
    /\ UNCHANGED <<overflow_checks, hmac, counter, used, wrapped>>

\* The passwords a caller can present to verify_hotp_custom: the one
\* generated for a tabulated moving factor, and, when lookahead is 255, the
\* one generated one past the nominal window, ctr + 256, whose keyed hash no
\* scan of the model reads and is therefore any value.
Presented(ctr, lookahead, digits) ==
    {[gen |-> g, pass |-> otp_custom(g, digits)] : g \in DOMAIN hmac}
    \cup (IF lookahead <= MaxWindow THEN {}
          ELSE {[gen |-> wrapping_add(ctr, lookahead + 1), pass |-> Password(v, digits)] :
                    v \in TruncVals})

\* verify_hotp_custom with a presented password; the caller stores the
\* counter it returns and keeps to one digits setting
VerifyHotp ==
    \E digits \in DigitsSet, lookahead \in Windows :
        /\ call.op = "hotp" => digits = call.digits
        /\ lookahead <= MaxWindow => Span(counter, lookahead) \subseteq DOMAIN hmac
        /\ \E p \in Presented(counter, lookahead, digits) :
             LET ret == verify_hotp_custom(p.pass.val, counter, lookahead, digits)
             IN  /\ p.pass.kind = "Ok"
                 /\ call' = [NoCall EXCEPT
                               !.op = "hotp", !.gen = p.gen, !.digits = digits,
                               !.password = p.pass.val, !.window = lookahead,
                               !.counter = counter, !.seen = used, !.ret = ret]
                 /\ counter' = IF ret.kind = "Ok" THEN ret.val ELSE counter
                 /\ used' = IF ret.kind = "Ok" /\ ret.ok
                            THEN used \cup {ret.scanned[Len(ret.scanned)]} ELSE used
                 /\ wrapped' = (wrapped \/ AddCarry(counter, lookahead + 1).carry)
                 /\ UNCHANGED <<overflow_checks, hmac>>

Next == VerifyHotp

\* Sequences of verify_hotp_custom calls against the persisted counter
Spec == Init /\ [][Next]_vars

SpecOtp == InitOtp /\ [][Generate]_vars

SpecTotp == InitTotp /\ [][VerifyTotp]_vars

----------------------------------------------------------------------------
\* Properties

\* The counter a successful scan stopped at
Matched(ret) == ret.scanned[Len(ret.scanned)]

\* a - b as a signed number of steps, for a and b at most 255 apart
Offset(a, b) ==
    CHOOSE d \in (-U8Max)..U8Max :
        IF d >= 0 THEN AddCarry(b, d) = [val |-> a, carry |-> FALSE]
        ELSE AddCarry(a, -d) = [val |-> b, carry |-> FALSE]

\* v mod 10^digits in the integers, for a 31-bit v
MathMod(v, digits) == IF digits >= 10 THEN v ELSE v % (10 ^ digits)

\* timestamp / step of a verify_totp_custom call
TotpNonce == U64Div(call.now, call.step)

\* A verify_totp_custom call with a non-zero timestamp and a step >= 1
TotpCall == call.op = "totp" /\ call.timestamp # U64Zero /\ call.step >= 1

\* C1: for every moving factor and every digits in 1..10, otp_custom
\* returns a string of exactly digits characters, all of them decimal digits.
C1_OtpLengthAndCharacters ==
    (call.op = "otp" /\ call.digits \in 1..10) =>
        /\ call.ret.kind = "Ok"
        /\ Len(call.ret.val) = call.digits
        /\ \A i \in 1..Len(call.ret.val) : call.ret.val[i] \in 0..9

\* C2: for every digits in 1..10 and every 31-bit truncated value v,
\* otp_custom completes without a panic and the password read as a decimal
\* number is v mod 10^digits.
C2_OtpIsTruncModPowerOfTen ==
    (call.op = "otp" /\ call.digits \in 1..10) =>
        /\ call.ret.kind = "Ok"
        /\ Decimal(call.ret.val) = MathMod(hmac[call.gen], call.digits)

\* C3: verify_hotp_custom called with the password generated at the stored
\* counter c returns (true, c + 1), for every lookahead in 0..255.
C3_HotpOwnCounter ==
    (call.op = "hotp" /\ call.gen = call.counter) =>
        /\ call.ret.kind = "Ok"
        /\ call.ret.ok
        /\ call.ret.val = wrapping_add(call.counter, 1)

\* C4: when verify_totp_custom finds a match for a non-zero timestamp, the
\* discrepancy it returns is the matched counter minus nonce = timestamp /
\* step, and it is 0 exactly when the matched counter is nonce.
C4_TotpDiscrepancyFromNonce ==
    (TotpCall /\ call.ret.kind = "Ok" /\ call.ret.ok) =>
        /\ call.ret.val = Offset(Matched(call.ret), TotpNonce)
        /\ call.ret.val = 0 <=> Matched(call.ret) = TotpNonce

\* C5: with allowed_drift = 0 and a non-zero timestamp, the password
\* generated for timestamp / step verifies as (true, 0).
C5_TotpNoDrift ==
    (TotpCall /\ call.window = 0 /\ call.gen = TotpNonce) =>
        /\ call.ret.kind = "Ok"
        /\ call.ret.ok
        /\ call.ret.val = 0

\* C6: with allowed_drift = 1 and a non-zero timestamp, the password
\* generated for the exact time slice timestamp / step verifies as (true, 0).
C6_TotpExactSliceDriftOne ==
    (TotpCall /\ call.window = 1 /\ call.gen = TotpNonce) =>
        /\ call.ret.kind = "Ok"
        /\ call.ret.ok
        /\ call.ret.val = 0

\* C7: for every lookahead in 0..255 and every k in 0..lookahead,
\* verify_hotp_custom called with the password generated at counter + k
\* returns (true, counter + k + 1).
C7_HotpWithinWindow ==
    (call.op = "hotp" /\ call.gen \in Span(call.counter, call.window)) =>
        /\ call.ret.kind = "Ok"
        /\ call.ret.ok
        /\ call.ret.val = wrapping_add(call.gen, 1)

\* C8: verify_hotp_custom called with the password generated at counter +
\* lookahead + 1, one past the window, returns (false, counter).
C8_HotpOnePastWindow ==
    (call.op = "hotp" /\ call.gen = wrapping_add(call.counter, call.window + 1)) =>
        /\ call.ret.kind = "Ok"
        /\ ~call.ret.ok
        /\ call.ret.val = call.counter

\* C9: for every counter up to 2^64 - 1, verify_hotp_custom completes
\* without overflow or panic, scans counter + 0 .. counter + lookahead taken
\* modulo 2^64 in ascending order of offset, stops at the first match c and
\* returns (true, (c + 1) mod 2^64), or (false, counter) after the whole window.
C9_HotpWrapSafeScan ==
    call.op = "hotp" =>
        /\ call.ret.kind = "Ok"
        /\ Len(call.ret.scanned) \in 1..(call.window + 1)
        /\ \A j \in 1..Len(call.ret.scanned) :
             /\ call.ret.scanned[j] = wrapping_add(call.counter, j - 1)
             /\ j < Len(call.ret.scanned) =>
                  otp_custom(call.ret.scanned[j], call.digits).val # call.password
        /\ call.ret.ok =>
             /\ otp_custom(Matched(call.ret), call.digits).val = call.password
             /\ call.ret.val = wrapping_add(Matched(call.ret), 1)
        /\ ~call.ret.ok =>
             /\ Len(call.ret.scanned) = call.window + 1
             /\ otp_custom(Matched(call.ret), call.digits).val # call.password
             /\ call.ret.val = call.counter

\* C10 as stated: in a sequence of verify_hotp_custom calls whose returned
\* counter the caller stores, the stored counter never decreases and no call
\* scans a counter at or before one that matched earlier.
C10_CounterNeverDecreases ==
    call.op = "hotp" =>
        /\ U64Leq(call.counter, counter)
        /\ \A c \in call.seen : \A j \in 1..Len(call.ret.scanned) :
             U64Less(c, call.ret.scanned[j])

\* C10 as amended: as long as every call of the sequence has counter +
\* lookahead + 1 < 2^64, the stored counter never decreases and no call
\* scans a counter at or before one that matched earlier.
C10_CounterNeverDecreasesBelowWrap ==
    (call.op = "hotp" /\ ~wrapped) =>
        /\ U64Leq(call.counter, counter)
        /\ \A c \in call.seen : \A j \in 1..Len(call.ret.scanned) :
             U64Less(c, call.ret.scanned[j])

\* A second successful verification, after an earlier match, in a sequence
\* that stayed below the wrap.
C10_Witness ==
    /\ call.op = "hotp"
    /\ ~wrapped
    /\ call.seen # {}
    /\ call.ret.kind = "Ok"
    /\ call.ret.ok
    /\ U64Less(call.counter, counter)

====
